---- MODULE Spec2Model ----
(***************************************************************************)
(* Ingestion orchestrator (stage2/monitor_v2.py), per-source base contract *)
(* (stage2/sources/base.py) and notification engine                        *)
(* (stage2/notification_system.py) of wechat-monitor-poc.                  *)
(*                                                                         *)
(* Python str values are sequences of one-character strings, so that the   *)
(* substring tests and the f-string that builds the cooldown key are       *)
(* computed, not assumed.  Python None is the value None.                  *)
(***************************************************************************)
EXTENDS Integers, Sequences, FiniteSets, TLC

\* ---------------------------------------------------------------- bounds
\* Wall-clock readings (datetime.now()) range over 0..MaxTime.
MaxTime == 2

\* The orchestrator's clock (time.time(), datetime.now()) counts ticks.  A
\* real clock reading is far above every poll interval; the run starts at
\* StartTime and is followed for Horizon ticks.
StartTime == 2
Horizon == 5
MaxClock == StartTime + Horizon

\* A source reports at most MaxErrors failed polls (caps _error_count).
MaxErrors == 1

\* A source hands on at most MaxMessages messages (caps _message_count).
MaxMessages == 4

\* timedelta(minutes=5) of BaseMessageSource.is_available (base.py line 80),
\* scaled to ticks
ErrorWindow == 3

\* the dedup cap and what a trim keeps (10000 and 8000, base.py lines 110
\* and 112), scaled
DedupCap == 2
DedupKeep == 1

\* the loop iterations between heartbeats (300, monitor_v2.py line 364), scaled
HeartbeatEvery == 2

\* ---------------------------------------------------------------- values
None == "None"

Range(s) == {s[i] : i \in 1..Len(s)}

\* Python `sub in s` for two str values.
Contains(s, sub) ==
    \E i \in 0..(Len(s) - Len(sub)) : SubSeq(s, i + 1, i + Len(sub)) = sub

\* dict assignment d[k] = v
Put(d, k, v) == [x \in DOMAIN d \cup {k} |-> IF x = k THEN v ELSE d[x]]

EmptyDict == [x \in {} |-> None]

\* All orders in which a Python set of str may be iterated (hash order).
Orders(S) ==
    {f \in [1..Cardinality(S) -> S] : \A i, j \in 1..Cardinality(S) : f[i] = f[j] => i = j}

\* ------------------------------------------------- notification: config
\* Channel names a configuration may use.  "email" is named by rules but has
\* no entry under notification.channels, so NotificationSystem.channels has
\* no such key.
Registered == {"console", "file", "dingtalk"}
ChannelNames == Registered \cup {"email"}

\* rule tables (notification.rules), in configuration order
RuleTable1 ==
    << [name |-> "r1", keywords |-> << <<"a">> >>,
        channels |-> <<"console">>, cooldown |-> 2, enabled |-> TRUE],
       [name |-> "r2", keywords |-> << <<"b", "b">>, <<"a", "b">> >>,
        channels |-> <<"file", "console">>, cooldown |-> 3, enabled |-> TRUE],
       [name |-> "r3", keywords |-> << <<"a">> >>,
        channels |-> <<"dingtalk">>, cooldown |-> 1, enabled |-> FALSE],
       [name |-> "r4", keywords |-> << <<"b", ":">> >>,
        channels |-> <<"dingtalk", "email">>, cooldown |-> 2, enabled |-> TRUE] >>

RuleTable2 ==
    << [name |-> "r5", keywords |-> << <<"b">>, <<":">> >>,
        channels |-> <<"file">>, cooldown |-> 0, enabled |-> TRUE],
       [name |-> "r6", keywords |-> << <<"a", "b">> >>,
        channels |-> <<"dingtalk", "file">>, cooldown |-> 2, enabled |-> TRUE],
       [name |-> "r7", keywords |-> << >>,
        channels |-> <<"console">>, cooldown |-> 1, enabled |-> TRUE] >>

RuleTables == {RuleTable1, RuleTable2}

\* notification.default_channels: absent, or configured
DefaultChannelConfigs == {None, <<"dingtalk", "email">>}

\* the (keyword, source) pairs handed to notify
Messages ==
    { << <<"a", "b">>, <<"a">> >>,
      << <<"b">>, <<":", "a">> >>, << <<"b", ":">>, <<"a">> >> }

\* What one channel's send does when it is awaited: it returns True ("ok"),
\* returns False after storing last_error ("error"), lets an exception escape
\* ("raise") or does not finish within the timeout ("timeout").
Outcomes == {"ok", "error", "raise", "timeout"}

\* ConsoleChannel.send and FileChannel.send hold no await and catch Exception:
\* they return True or False.  The webhook channel awaits the network; it
\* stands for any implementation of NotificationChannel.send.
channel_outcomes(c) == IF c \in {"console", "file"} THEN {"ok", "error"} ELSE Outcomes

VARIABLES
    now,               \* the wall clock
    enabled,           \* NotificationSystem.enabled
    rules,             \* NotificationSystem.rules
    default_cfg,       \* config["notification"].get("default_channels")
    chan_enabled,      \* NotificationChannel.enabled, per registered channel
    chan_last_error,   \* NotificationChannel.last_error, per registered channel
    cooldown_records,  \* NotificationSystem._cooldown_records
    call,              \* the notify call that completed last (None before)
    sent_key,          \* history: key string -> time of the last notification sent
    sent_pair          \* history: <<keyword, source>> -> time of the last one sent

nvars == <<now, enabled, rules, default_cfg, chan_enabled, chan_last_error,
           cooldown_records, call, sent_key, sent_pair>>

VARIABLES
    clock,             \* the orchestrator's and the sources' clock
    sources,           \* MultiSourceMonitor.sources: name, poll_interval, enabled
    source_last_poll,  \* MultiSourceMonitor._source_last_poll, by source name
    running,           \* MultiSourceMonitor.running
    loop,              \* where run() is: "loop", or "exited"
    exit_cause,        \* why run() left its loop (None while it has not)
    idx,               \* the source the for loop handles next; Len(sources)+1: heartbeat and sleep
    heartbeat_counter, \* run()'s heartbeat_counter
    db_status,         \* monitor_status.status
    last_poll_time,    \* BaseMessageSource._last_poll_time per source, as a set
    last_error,        \* BaseMessageSource._last_error per source
    error_count,       \* BaseMessageSource._error_count per source
    message_count,     \* BaseMessageSource._message_count per source
    seen_message_ids,  \* BaseMessageSource._seen_message_ids per source
    live,              \* history: per source, the ids handed on and not evicted since
    raise_streak,      \* history: per source, polls that raised with none completed (0, 1, 2 = more)
    since_trim,        \* history: per source, the ids cached since the last trim ({} before any trim)
    own_last_poll,     \* history: per source, the time of its own last turn that was due
    step               \* what the last turn of the for loop did

mvars == <<clock, sources, source_last_poll, running, loop, exit_cause, idx,
           heartbeat_counter, db_status, last_poll_time, last_error,
           error_count, message_count, seen_message_ids, live, raise_streak,
           since_trim, own_last_poll, step>>

VARIABLES
    keyword_filter,    \* the KeywordFilter, as a set ({}: None)
    checked            \* the KeywordFilter.check call that returned last

fvars == <<keyword_filter, checked>>

VARIABLES
    notification_system, \* MultiSourceMonitor.notification_system is set (not None)
    stats,             \* MultiSourceMonitor.stats: total_messages, matched_messages
    messages_table,    \* the rows of the messages table, in insertion order
    threads,           \* the threads _send_notification has started, and where each is
    batch              \* what _poll_source did with the messages of the last poll

pvars == <<notification_system, stats, messages_table, threads, batch>>

VARIABLES
    message_queues,    \* WeChatApiSource._message_queues: source name -> list of payloads
    queue_lock,        \* who holds WeChatApiSource._queue_lock ("free": nobody)
    processed_message_ids, \* WeChatApiSource._processed_message_ids
    hook_pc,           \* where the webhook thread is in add_webhook_message
    hook_arg,          \* the arguments of the add_webhook_message call in progress
    poll_pc,           \* where the scheduler thread is in poll
    raw_messages,      \* poll's local raw_messages, the part not converted yet
    polled_messages,   \* poll's local messages
    hook_message_count, \* _message_count of the WeChatApiSource
    hook_log           \* per payload added: what it was, and how often poll returned it

wvars == <<message_queues, queue_lock, processed_message_ids, hook_pc, hook_arg,
           poll_pc, raw_messages, polled_messages, hook_message_count,
           hook_log>>

\* the variables of the parts added to the orchestrator's and the engine's
xvars == <<fvars, pvars, wvars>>

vars == <<nvars, mvars, xvars>>

\* ---------------------------------------------- notification: functions

\* _check_cooldown without line 452 (the ledger is never written)
check_cooldown_norecord(records, key, cooldown, t) ==
    IF cooldown <= 0
    THEN [ok |-> TRUE, records |-> records]
    ELSE IF key \in DOMAIN records /\ t - records[key] < cooldown
         THEN [ok |-> FALSE, records |-> records]
         ELSE [ok |-> TRUE, records |-> records]

\* _check_cooldown with line 452 moved above the test of line 440 (the
\* ledger is written under a zero window as well)
check_cooldown_always_records(records, key, cooldown, t) ==
    IF cooldown <= 0
    THEN [ok |-> TRUE, records |-> Put(records, key, t)]
    ELSE IF key \in DOMAIN records /\ t - records[key] < cooldown
         THEN [ok |-> FALSE, records |-> records]
         ELSE [ok |-> TRUE, records |-> Put(records, key, t)]

\* NotificationSystem._check_cooldown: the verdict and the ledger after it.
check_cooldown(records, key, cooldown, t) ==
    IF cooldown <= 0
    THEN [ok |-> TRUE, records |-> records]
    ELSE IF key \in DOMAIN records /\ t - records[key] < cooldown
         THEN [ok |-> FALSE, records |-> records]
         ELSE [ok |-> TRUE, records |-> Put(records, key, t)]

\* the test of line 464 with its operands exchanged (message.keyword in kw)
rule_matches_reversed(rule, keyword) ==
    \E k \in 1..Len(rule.keywords) : Contains(rule.keywords[k], keyword)

\* any(kw in message.keyword for kw in rule.keywords)
rule_matches(rule, keyword) ==
    \E k \in 1..Len(rule.keywords) : Contains(keyword, rule.keywords[k])

\* NotificationSystem._match_rules
match_rules(rs, keyword) ==
    SelectSeq(rs, LAMBDA r : r.enabled /\ rule_matches(r, keyword))

\* channels_to_notify.update(rule.channels) over the matched rules
RECURSIVE merge_channels(_)
merge_channels(matched) ==
    IF matched = << >> THEN {}
    ELSE merge_channels(Tail(matched)) \cup Range(Head(matched).channels)

\* max in place of min at line 496
RECURSIVE max_cooldown(_)
max_cooldown(matched) ==
    IF Len(matched) = 1 THEN matched[1].cooldown
    ELSE LET m == max_cooldown(Tail(matched))
         IN IF matched[1].cooldown >= m THEN matched[1].cooldown ELSE m

\* min(rule.cooldown for rule in matched_rules)
RECURSIVE min_cooldown(_)
min_cooldown(matched) ==
    IF Len(matched) = 1 THEN matched[1].cooldown
    ELSE LET m == min_cooldown(Tail(matched))
         IN IF matched[1].cooldown <= m THEN matched[1].cooldown ELSE m

\* config.get("default_channels", ["console", "file"])
default_channels(cfg) == IF cfg = None THEN <<"console", "file">> ELSE cfg

\* channel and channel.is_available()
can_send(c, en) == c \in DOMAIN en /\ en[c]

\* _send_with_timeout awaited: the value notify stores for the channel.
\* A send that returns False has recorded its own last_error ("error"); a
\* timeout is turned into False by _send_with_timeout and an exception by
\* notify's except clause, neither writes last_error.
send_result(outcome) == outcome = "ok"

\* The second loop of notify: the coroutines of `tasks` awaited one after the
\* other.  A coroutine object starts running when it is awaited.
RECURSIVE await_tasks(_, _, _)
await_tasks(tasks, beh, acc) ==
    IF tasks = << >> THEN acc
    ELSE LET c == Head(tasks)
             o == beh[c]
         IN await_tasks(Tail(tasks), beh,
               [results |-> Put(acc.results, c, send_result(o)),
                log     |-> acc.log \o << <<"start", c>>, <<"end", c, o>> >>,
                errors  |-> IF o = "error" THEN acc.errors \cup {c} ELSE acc.errors])

\* The first loop of notify: a coroutine per available channel, False for the rest.
RECURSIVE first_loop(_, _, _)
first_loop(chans, en, acc) ==
    IF chans = << >> THEN acc
    ELSE LET c == Head(chans)
         IN first_loop(Tail(chans), en,
               IF can_send(c, en)
               THEN [acc EXCEPT !.tasks = Append(@, c)]
               ELSE [acc EXCEPT !.results = Put(@, c, FALSE)])

dispatch(chans, en, beh) ==
    LET fl == first_loop(chans, en, [tasks |-> << >>, results |-> EmptyDict])
    IN await_tasks(fl.tasks, beh, [results |-> fl.results, log |-> << >>, errors |-> {}])

\* what the channels in S may do during one notify
behaviours(S) == {b \in [S -> Outcomes] : \A c \in S : b[c] \in channel_outcomes(c)}

\* f"{message.keyword}:{message.source}"
cooldown_key(keyword, source) == keyword \o <<":">> \o source

\* The channel orders notify may iterate: the configured list when no rule
\* matched, any order of the merged set otherwise (list(set)).
channel_orders(matched, cfg) ==
    IF matched = << >> THEN {default_channels(cfg)}
    ELSE Orders(merge_channels(matched))

\* line 492 with the rule default (NotificationRule.cooldown) in place of 0
applied_cooldown_default(matched) == IF matched = << >> THEN 1 ELSE min_cooldown(matched)

\* cooldown = 0 when no rule matched, the minimum otherwise (lines 492, 496)
applied_cooldown(matched) == IF matched = << >> THEN 0 ELSE min_cooldown(matched)

\* ------------------------------------------------ notification: actions

\* `call` before the first notify
NoCall ==
    [status |-> "none", results |-> EmptyDict, log |-> << >>, channels |-> << >>,
     keyword |-> << >>, source |-> << >>, at |-> 0, matched |-> << >>,
     resolved |-> {}, cooldown |-> 0, prev_key |-> {}, prev_pair |-> {}]

InitNotify ==
    /\ now = 0
    /\ enabled \in BOOLEAN
    /\ rules \in RuleTables
    /\ default_cfg \in DefaultChannelConfigs
    /\ chan_enabled \in {f \in [Registered -> BOOLEAN] : f["console"] /\ f["file"]}
    /\ chan_last_error = [c \in Registered |-> None]
    /\ cooldown_records = EmptyDict
    /\ call = NoCall
    /\ sent_key = EmptyDict
    /\ sent_pair = EmptyDict

\* Time passes between calls.
Tick ==
    /\ now < MaxTime
    /\ now' = now + 1
    /\ UNCHANGED <<enabled, rules, default_cfg, chan_enabled, chan_last_error,
                   cooldown_records, call, sent_key, sent_pair>>
    /\ UNCHANGED <<mvars, xvars>>

\* the time stored under k, as a set: empty when there is none
Prev(d, k) == IF k \in DOMAIN d THEN {d[k]} ELSE {}

\* NotificationSystem.notify(message), from call to return.
Notify(keyword, source) ==
    LET matched == match_rules(rules, keyword)
        cd      == applied_cooldown(matched)
        key     == cooldown_key(keyword, source)
        cc      == check_cooldown(cooldown_records, key, cd, now)
        base    == [keyword |-> keyword, source |-> source, at |-> now,
                    matched |-> [i \in 1..Len(matched) |-> matched[i].name],
                    resolved |-> IF matched = << >>
                                 THEN Range(default_channels(default_cfg))
                                 ELSE merge_channels(matched),
                    cooldown |-> cd,
                    prev_key |-> Prev(sent_key, key),
                    prev_pair |-> Prev(sent_pair, <<keyword, source>>)]
    IN
    /\ IF ~enabled
       THEN /\ call' = [status |-> "disabled", results |-> EmptyDict, log |-> << >>,
                        channels |-> << >>] @@ base
            /\ UNCHANGED <<cooldown_records, chan_last_error, sent_key, sent_pair>>
       ELSE IF ~cc.ok
       THEN /\ call' = [status |-> "dropped", results |-> EmptyDict, log |-> << >>,
                        channels |-> << >>] @@ base
            /\ UNCHANGED <<cooldown_records, chan_last_error, sent_key, sent_pair>>
       ELSE \E chans \in channel_orders(matched, default_cfg) :
            \E beh \in behaviours({c \in Range(chans) : can_send(c, chan_enabled)}) :
               LET d == dispatch(chans, chan_enabled, beh)
               IN /\ call' = [status |-> "sent", results |-> d.results, log |-> d.log,
                              channels |-> chans] @@ base
                  /\ cooldown_records' = cc.records
                  /\ chan_last_error' =
                        [c \in Registered |->
                            IF c \in d.errors THEN "error" ELSE chan_last_error[c]]
                  /\ sent_key' = Put(sent_key, key, now)
                  /\ sent_pair' = Put(sent_pair, <<keyword, source>>, now)
    /\ UNCHANGED <<now, enabled, rules, default_cfg, chan_enabled>>
    /\ UNCHANGED <<mvars, xvars>>

NotifyAny == \E m \in Messages : Notify(m[1], m[2])

Next == Tick \/ NotifyAny

\* ------------------------------------------------- orchestrator: config

\* the sources handed to add_source, in order: SourceConfig name,
\* poll_interval and enabled
SourceTableA ==
    << [name |-> "A", poll_interval |-> 1, enabled |-> TRUE],
       [name |-> "B", poll_interval |-> 2, enabled |-> TRUE] >>

\* two sources configured under one name
SourceTableB ==
    << [name |-> "A", poll_interval |-> 2, enabled |-> TRUE],
       [name |-> "A", poll_interval |-> 1, enabled |-> TRUE] >>

\* sources that are due in every iteration
SourceTableC ==
    << [name |-> "A", poll_interval |-> 0, enabled |-> TRUE],
       [name |-> "B", poll_interval |-> 0, enabled |-> TRUE] >>

\* message ids a source may read; one more than the dedup cache holds
MsgIds == 1..(DedupCap + 1)

\* what a poll may read: no message, one message, two messages
BatchesOfOne == {<< >>} \cup {<<i>> : i \in {1}}
BatchesOfTwo == {<< >>} \cup {<<i>> : i \in MsgIds} \cup {<<i, j>> : i, j \in MsgIds}

\* What is_available() adds to the base check in a subclass: nothing ("ok"), a
\* failed check of its own ("no"), or an exception ("raise").
AvailInputs == {"ok", "no", "raise"}

\* What poll() does: returns the new messages after _update_poll_status(True)
\* ("ok"), returns [] after _update_poll_status(False, ...) ("fail"), or lets
\* an exception escape ("raise").
PollOutcomes == {"ok", "fail", "raise"}

\* ---------------------------------------------- orchestrator: functions

\* dict.get(key, default)
Get(d, k, default) == IF k \in DOMAIN d THEN d[k] ELSE default

\* BaseMessageSource.is_available with the error test of line 77 left out
is_available_no_window(is_enabled, err, polled, t) == is_enabled

\* BaseMessageSource.is_available with the age test of line 80 left out: a
\* source with an error recorded is unavailable however old the error is
is_available_locked_out(is_enabled, err, polled, t) ==
    IF ~is_enabled THEN FALSE
    ELSE IF err # None /\ polled # {} THEN FALSE
    ELSE TRUE

\* BaseMessageSource.is_available: `polled` is _last_poll_time as a set
is_available(is_enabled, err, polled, t) ==
    IF ~is_enabled THEN FALSE
    ELSE IF err # None /\ polled # {} /\ (\E p \in polled : t - p < ErrorWindow) THEN FALSE
    ELSE TRUE

\* one message of _deduplicate_messages without lines 110-112 (no trim)
dedup_one_no_trim(acc, id) ==
    IF id \in acc.seen
    THEN {[acc EXCEPT !.log = Append(@, <<"dup", id>>)]}
    ELSE {[seen |-> acc.seen \cup {id}, out |-> Append(acc.out, id),
           log |-> Append(acc.log, <<"new", id>>)]}

\* one message of _deduplicate_messages without line 106 (the id is not stored)
dedup_one_forgetful(acc, id) ==
    IF id \in acc.seen
    THEN {[acc EXCEPT !.log = Append(@, <<"dup", id>>)]}
    ELSE {[seen |-> acc.seen, out |-> Append(acc.out, id),
           log |-> Append(acc.log, <<"new", id>>)]}

\* One message of _deduplicate_messages (lines 105-112).  list(set)[-8000:]
\* keeps the last entries of the set's iteration order, which is the hash
\* order of the ids: every subset of the kept size is a possible result.
dedup_one(acc, id) ==
    IF id \in acc.seen
    THEN {[acc EXCEPT !.log = Append(@, <<"dup", id>>)]}
    ELSE LET added == acc.seen \cup {id}
         IN IF Cardinality(added) > DedupCap
            THEN {[seen |-> kept, out |-> Append(acc.out, id),
                   log |-> acc.log \o << <<"new", id>>, <<"trim", added \ kept>> >>]
                     : kept \in {k \in SUBSET added : Cardinality(k) = DedupKeep}}
            ELSE {[seen |-> added, out |-> Append(acc.out, id),
                   log |-> Append(acc.log, <<"new", id>>)]}

RECURSIVE dedup_loop(_, _)
dedup_loop(accs, messages) ==
    IF messages = << >> THEN accs
    ELSE dedup_loop(UNION {dedup_one(a, Head(messages)) : a \in accs}, Tail(messages))

\* BaseMessageSource._deduplicate_messages: every possible (cache, result).
\* `log` lists what happened to each message and each trim, in order.
deduplicate_messages(seen, messages) ==
    dedup_loop({[seen |-> seen, out |-> << >>, log |-> << >>]}, messages)

\* The ids handed on and still cached, after the events of `log`.
RECURSIVE live_after(_, _)
live_after(l, log) ==
    IF log = << >> THEN l
    ELSE LET e == Head(log)
         IN live_after(IF e[1] = "new" THEN l \cup {e[2]}
                       ELSE IF e[1] = "trim" THEN l \ e[2]
                       ELSE l,
                       Tail(log))

\* The ids added to the cache since its last trim, after the events of
\* `log`: {} while the cache was never trimmed, {n} after a trim.
RECURSIVE since_trim_after(_, _)
since_trim_after(c, log) ==
    IF log = << >> THEN c
    ELSE LET e == Head(log)
         IN since_trim_after(IF e[1] = "trim" THEN {0}
                             ELSE IF e[1] = "new" THEN {n + 1 : n \in c}
                             ELSE c,
                             Tail(log))

\* the except clause of _poll_source (line 324) catches nothing
poll_source_lets_through(kind) == FALSE

\* the except clause of _poll_source (line 324): the exceptions it catches
poll_source_catches(kind) == kind = "Exception"

\* _poll_source without lines 310-312 (poll() is called in every cycle)
poll_source_never_skips(available) == FALSE

\* the test of line 310: `if not source.is_available()`
poll_source_skips(available) == ~available

\* run() without lines 364-366: no heartbeat is ever due
heartbeat_never(counter) == FALSE

\* the test of line 364, on the counter that line 363 has raised
heartbeat_due(counter) == counter >= HeartbeatEvery

\* `while True:` in the place of line 351
loop_ignores_stop(is_running) == TRUE

\* the test of `while self.running` (line 351)
loop_continues(is_running) == is_running

\* ------------------------------------------------ orchestrator: actions

\* `step` when the last thing run() did was not a turn of the for loop
NoStep ==
    [src |-> 0, at |-> 0, due |-> FALSE, entered |-> FALSE, env |-> "none", avail |-> "none",
     poll |-> "none", processed |-> << >>, log |-> << >>, live_before |-> {},
     errors_before |-> 0, error_before |-> None, polled_before |-> {},
     seen_before |-> {}, own_before |-> 0, messages_before |-> 0, beat |-> "none"]

\* The orchestrator of a process that only serves notify.
NoMonitor ==
    /\ clock = StartTime
    /\ sources = << >>
    /\ source_last_poll = EmptyDict
    /\ running = FALSE
    /\ loop = "idle"
    /\ exit_cause = None
    /\ idx = 1
    /\ heartbeat_counter = 0
    /\ db_status = None
    /\ last_poll_time = << >>
    /\ last_error = << >>
    /\ error_count = << >>
    /\ message_count = << >>
    /\ seen_message_ids = << >>
    /\ live = << >>
    /\ raise_streak = << >>
    /\ since_trim = << >>
    /\ own_last_poll = << >>
    /\ step = NoStep

\* The notification engine of a process that only polls.
NoNotify ==
    /\ now = 0
    /\ enabled = FALSE
    /\ rules = << >>
    /\ default_cfg = None
    /\ chan_enabled = [c \in Registered |-> TRUE]
    /\ chan_last_error = [c \in Registered |-> None]
    /\ cooldown_records = EmptyDict
    /\ call = NoCall
    /\ sent_key = EmptyDict
    /\ sent_pair = EmptyDict

\* add_source for every source of the table, then run() up to its loop.
InitMonitor(tables, t0) ==
    /\ clock = t0
    /\ sources \in tables
    /\ source_last_poll = [n \in {sources[i].name : i \in 1..Len(sources)} |-> 0]
    /\ running = TRUE
    /\ loop = "loop"
    /\ exit_cause = None
    /\ idx = 1
    /\ heartbeat_counter = 0
    /\ db_status = "running"
    /\ last_poll_time = [i \in 1..Len(sources) |-> {}]
    /\ last_error = [i \in 1..Len(sources) |-> None]
    /\ error_count = [i \in 1..Len(sources) |-> 0]
    /\ message_count = [i \in 1..Len(sources) |-> 0]
    /\ seen_message_ids = [i \in 1..Len(sources) |-> {}]
    /\ live = [i \in 1..Len(sources) |-> {}]
    /\ raise_streak = [i \in 1..Len(sources) |-> 0]
    /\ since_trim = [i \in 1..Len(sources) |-> {}]
    /\ own_last_poll = [i \in 1..Len(sources) |-> 0]
    /\ step = NoStep

\* One turn of `for source in self.sources` (lines 353-360) for source i,
\* with _poll_source, the source's is_available and poll, and the processing
\* of every message poll returned.
SourceTurn(i, batches) ==
    /\ loop = "loop"
    /\ idx = i
    /\ i \in 1..Len(sources)
    /\ LET src == sources[i]
           last_poll == Get(source_last_poll, src.name, 0)
           current_time == clock
           due == current_time - last_poll >= src.poll_interval
           base == [src |-> i, at |-> current_time, due |-> due, entered |-> due,
                    env |-> "none", avail |-> "none", poll |-> "none", processed |-> << >>,
                    log |-> << >>, live_before |-> live[i],
                    errors_before |-> error_count[i], error_before |-> last_error[i],
                    polled_before |-> last_poll_time[i],
                    seen_before |-> seen_message_ids[i],
                    own_before |-> own_last_poll[i],
                    messages_before |-> message_count[i], beat |-> "none"]
           caught == poll_source_catches("Exception")
           leave(cause) == /\ loop' = "exited" /\ exit_cause' = cause
                           /\ running' = FALSE /\ db_status' = "stopped"
                           /\ UNCHANGED <<idx, source_last_poll, own_last_poll>>
           goon == /\ idx' = i + 1
                   /\ source_last_poll' = Put(source_last_poll, src.name, current_time)
                   /\ own_last_poll' = [own_last_poll EXCEPT ![i] = current_time]
                   /\ UNCHANGED <<loop, exit_cause, running, db_status>>
       IN
       IF ~due
       THEN /\ step' = base
            /\ idx' = i + 1
            /\ UNCHANGED <<clock, source_last_poll, running, loop, exit_cause, db_status,
                           last_poll_time, last_error, error_count, message_count,
                           seen_message_ids, live, raise_streak, since_trim,
                           own_last_poll>>
       ELSE \E av \in AvailInputs :
            IF av = "raise"
            THEN /\ step' = [base EXCEPT !.env = av, !.avail = "raise"]
                 /\ IF caught THEN goon ELSE leave("source_error")
                 /\ UNCHANGED <<clock, last_poll_time, last_error, error_count,
                                message_count, seen_message_ids, live, raise_streak,
                                since_trim>>
            ELSE IF poll_source_skips(av = "ok" /\ is_available(src.enabled, last_error[i],
                                                                last_poll_time[i], clock))
            THEN /\ step' = [base EXCEPT !.env = av, !.avail = "no"]
                 /\ goon
                 /\ UNCHANGED <<clock, last_poll_time, last_error, error_count,
                                message_count, seen_message_ids, live, raise_streak,
                                since_trim>>
            ELSE \E po \in PollOutcomes, took \in {0, 1} :
                 /\ clock + took <= MaxClock
                 /\ clock' = clock + took
                 /\ CASE po = "raise" ->
                           /\ step' = [base EXCEPT !.env = av, !.avail = "yes", !.poll = "raise"]
                           /\ IF caught THEN goon ELSE leave("source_error")
                           /\ raise_streak' =
                                 [raise_streak EXCEPT ![i] =
                                     IF last_poll_time[i] # {} THEN 0
                                     ELSE IF @ = 0 THEN 1 ELSE 2]
                           /\ UNCHANGED <<last_poll_time, last_error, error_count,
                                          message_count, seen_message_ids, live,
                                          since_trim>>
                      [] po = "fail" ->
                           /\ error_count[i] < MaxErrors
                           /\ step' = [base EXCEPT !.env = av, !.avail = "yes", !.poll = "fail"]
                           /\ goon
                           /\ last_poll_time' = [last_poll_time EXCEPT ![i] = {clock'}]
                           /\ last_error' = [last_error EXCEPT ![i] = "error"]
                           /\ error_count' = [error_count EXCEPT ![i] = @ + 1]
                           /\ raise_streak' = [raise_streak EXCEPT ![i] = 0]
                           /\ UNCHANGED <<message_count, seen_message_ids, live, since_trim>>
                      [] po = "ok" ->
                           \E raw \in batches :
                           \E d \in deduplicate_messages(seen_message_ids[i], raw) :
                              /\ message_count[i] + Len(d.out) <= MaxMessages
                              /\ step' = [base EXCEPT !.env = av, !.avail = "yes", !.poll = "ok",
                                                      !.processed = d.out, !.log = d.log]
                              /\ goon
                              /\ seen_message_ids' = [seen_message_ids EXCEPT ![i] = d.seen]
                              /\ live' = [live EXCEPT ![i] = live_after(@, d.log)]
                              /\ since_trim' = [since_trim EXCEPT ![i] = since_trim_after(@, d.log)]
                              /\ message_count' = [message_count EXCEPT ![i] = @ + Len(d.out)]
                              /\ last_poll_time' = [last_poll_time EXCEPT ![i] = {clock'}]
                              /\ last_error' = [last_error EXCEPT ![i] = None]
                              /\ raise_streak' = [raise_streak EXCEPT ![i] = 0]
                              /\ UNCHANGED error_count
    /\ UNCHANGED <<sources, heartbeat_counter>>
    /\ UNCHANGED <<nvars, xvars>>

\* The end of one iteration of `while self.running` (lines 362-369): the
\* heartbeat, the sleep, and the test of self.running.
EndOfIteration ==
    /\ loop = "loop"
    /\ idx = Len(sources) + 1
    /\ \E hb \in {"ok", "raise"}, slept \in {0, 1} :
          LET beat == heartbeat_due(heartbeat_counter + 1)
          IN IF beat /\ hb = "raise"
             THEN /\ loop' = "exited" /\ exit_cause' = "heartbeat_error"
                  /\ running' = FALSE /\ db_status' = "stopped"
                  /\ heartbeat_counter' = heartbeat_counter + 1
                  /\ step' = [NoStep EXCEPT !.beat = "raise"]
                  /\ UNCHANGED <<clock, idx>>
             ELSE /\ clock + slept <= MaxClock
                  /\ clock' = clock + slept
                  /\ heartbeat_counter' = IF beat THEN 0 ELSE heartbeat_counter + 1
                  /\ step' = [NoStep EXCEPT !.beat = IF beat THEN "ok" ELSE "none"]
                  /\ IF loop_continues(running)
                     THEN /\ idx' = 1
                          /\ UNCHANGED <<loop, exit_cause, running, db_status>>
                     ELSE /\ loop' = "exited" /\ exit_cause' = "stop"
                          /\ db_status' = "stopped"
                          /\ UNCHANGED <<idx, running>>
    /\ UNCHANGED <<sources, source_last_poll, last_poll_time, last_error, error_count,
                   message_count, seen_message_ids, live, raise_streak, since_trim,
                   own_last_poll>>
    /\ UNCHANGED <<nvars, xvars>>

\* KeyboardInterrupt in the loop: the except clause, then stop() in finally.
Interrupt ==
    /\ loop = "loop"
    /\ loop' = "exited"
    /\ exit_cause' = "interrupt"
    /\ running' = FALSE
    /\ db_status' = "stopped"
    /\ UNCHANGED <<clock, sources, source_last_poll, idx, heartbeat_counter,
                   last_poll_time, last_error, error_count,
                   message_count, seen_message_ids, live, raise_streak, since_trim,
                   own_last_poll, step>>
    /\ UNCHANGED <<nvars, xvars>>

\* no check call has returned
NoCheck == [done |-> FALSE, text |-> {}, result |-> {}]

\* a process without a keyword filter
NoFilter ==
    /\ keyword_filter = {}
    /\ checked = NoCheck

\* `batch` before any poll has returned messages
NoBatch ==
    [polled |-> 0, msgs |-> << >>, results |-> << >>, returned |-> "none",
     threads_before |-> 0, started |-> << >>]

\* a process that handles no polled message
NoProc ==
    /\ notification_system = FALSE
    /\ stats = [total_messages |-> 0, matched_messages |-> 0]
    /\ messages_table = << >>
    /\ threads = << >>
    /\ batch = NoBatch

\* no WeChatApiSource constructed, no webhook call made
NoHook ==
    /\ message_queues = << >>
    /\ queue_lock = "free"
    /\ processed_message_ids = {}
    /\ hook_pc = "idle"
    /\ hook_arg = {}
    /\ poll_pc = "idle"
    /\ raw_messages = << >>
    /\ polled_messages = << >>
    /\ hook_message_count = 0
    /\ hook_log = << >>

\* every other part at rest
NoOthers == NoFilter /\ NoProc /\ NoHook

\* the polling loop with sources that read at most one message id
PollSmall == \E i \in 1..2 : SourceTurn(i, BatchesOfOne)

\* the polling loop with sources that read more ids than the cache holds
PollWide == \E i \in 1..2 : SourceTurn(i, BatchesOfTwo)

NextMon == PollSmall \/ EndOfIteration \/ Interrupt

NextDedup == PollWide \/ EndOfIteration \/ Interrupt

\* The orchestrator on its schedule, over Horizon minutes.
InitMon == NoNotify /\ InitMonitor({SourceTableA, SourceTableB}, StartTime) /\ NoOthers

SpecMon == InitMon /\ [][NextMon]_vars

\* The orchestrator with sources that are always due, at one clock reading.
InitDedup == NoNotify /\ InitMonitor({SourceTableC}, MaxClock) /\ NoOthers

SpecDedup == InitDedup /\ [][NextDedup]_vars

\* One tick passing while the clock reading is kept: every stored time
\* moves one tick into the past.  A time MaxClock or more ago stays at 0;
\* MaxClock is above every poll interval and the error window, so no test
\* of the loop tells the difference.
Earlier(t) == IF t > 0 THEN t - 1 ELSE 0

\* The end of one iteration (lines 362-369) of a loop that is followed for
\* ever: the heartbeat succeeds and time.sleep(0.1) lets one tick pass.
EndOfIterationForEver ==
    /\ loop = "loop"
    /\ idx = Len(sources) + 1
    /\ running
    /\ LET beat == heartbeat_due(heartbeat_counter + 1)
       IN /\ heartbeat_counter' = IF beat THEN 0 ELSE heartbeat_counter + 1
          /\ step' = [NoStep EXCEPT !.beat = IF beat THEN "ok" ELSE "none"]
    /\ idx' = 1
    /\ source_last_poll' = [n \in DOMAIN source_last_poll |-> Earlier(source_last_poll[n])]
    /\ own_last_poll' = [i \in DOMAIN own_last_poll |-> Earlier(own_last_poll[i])]
    /\ last_poll_time' = [i \in DOMAIN last_poll_time |->
                              {Earlier(t) : t \in last_poll_time[i]}]
    /\ UNCHANGED <<clock, sources, running, loop, exit_cause, db_status, last_error,
                   error_count, message_count, seen_message_ids, live, raise_streak,
                   since_trim>>
    /\ UNCHANGED <<nvars, xvars>>

\* stop() called by another thread while run() is in its loop (lines
\* 376-397): running cleared, the status written, the connection closed
\* (_get_connection opens it again for whoever writes next).
StopCalled ==
    /\ loop = "loop"
    /\ running
    /\ running' = FALSE
    /\ db_status' = "stopped"
    /\ UNCHANGED <<clock, sources, source_last_poll, loop, exit_cause, idx,
                   heartbeat_counter, last_poll_time, last_error, error_count,
                   message_count, seen_message_ids, live, raise_streak, since_trim,
                   own_last_poll, step>>
    /\ UNCHANGED <<nvars, xvars>>

\* the thread of run(): the turns of the for loop and the end of an iteration
RunThread == PollSmall \/ EndOfIteration

NextStop == RunThread \/ Interrupt \/ StopCalled

\* The orchestrator with a caller that may stop it; the thread of run()
\* keeps executing.
InitStop == NoNotify /\ InitMonitor({SourceTableA}, MaxClock) /\ NoOthers

SpecStop == InitStop /\ [][NextStop]_vars /\ WF_vars(RunThread)

NextLive == PollSmall \/ EndOfIterationForEver

\* The orchestrator never interrupted, every iteration taking one tick.
InitLive == NoNotify /\ InitMonitor({SourceTableA, SourceTableB}, MaxClock) /\ NoOthers

SpecLive == InitLive /\ [][NextLive]_vars /\ WF_vars(NextLive)

\* ------------------------------------------------------ keyword filter
\* The characters of keywords and texts.  "A" is the upper case of "a";
\* "x" is a character of the OCR error table ("欵") and "k" the character
\* it is corrected to ("款").
Chars == {"a", "A", "b", " ", "x", "k"}

\* the longest text handed to check
MaxText == 2

\* str.lower(), on one character and on a str
lower_char(c) == IF c = "A" THEN "a" ELSE c

lower(s) == [i \in 1..Len(s) |-> lower_char(s[i])]

\* text.replace(" ", "").replace("\n", "")
no_space(s) == SelectSeq(s, LAMBDA c : c # " ")

\* the replace loop over ocr_error_map (monitor.py lines 196-197)
ocr_corrected(s) == [i \in 1..Len(s) |-> IF s[i] = "x" THEN "k" ELSE s[i]]

\* the texts handed to check: None ({}), or a str ({text})
Texts ==
    {{}} \cup {{t} : t \in UNION {[1..n -> Chars] : n \in 0..MaxText}}

\* the keyword lists of the configuration, in configured order
KeywordLists ==
    { << >>,
      << <<"a", "b">>, <<"b">> >>,
      << <<"b">>, <<"a", "b">> >>,
      << <<"A">>, <<"a">> >>,
      << << >>, <<"a">> >>,
      << <<"a", " ", "b">>, <<"k">> >>,
      << <<"b", "b">>, <<"a">> >> }

MatchModes == {"contain", "exact", "fuzzy"}

\* KeywordFilter.__init__ of monitor_v2.py: the keywords are stored in lower
\* case unless the filter is case sensitive
KeywordFilterV2(keywords, case_sensitive) ==
    [keywords |-> IF case_sensitive THEN keywords
                  ELSE [i \in 1..Len(keywords) |-> lower(keywords[i])],
     case_sensitive |-> case_sensitive, match_mode |-> "contain", legacy |-> FALSE]

\* KeywordFilter.__init__ of monitor.py: the keywords are stored as given
KeywordFilterV1(keywords, match_mode, case_sensitive) ==
    [keywords |-> keywords, case_sensitive |-> case_sensitive,
     match_mode |-> match_mode, legacy |-> TRUE]

\* the loop of check that returns the last keyword that matches
RECURSIVE check_loop_last(_, _)
check_loop_last(keywords, check_text) ==
    IF keywords = << >> THEN {}
    ELSE LET rest == check_loop_last(Tail(keywords), check_text)
         IN IF rest # {} THEN rest
            ELSE IF Contains(check_text, Head(keywords)) THEN {Head(keywords)} ELSE {}

\* the loop of check (monitor_v2.py lines 73-77): None is {}
RECURSIVE check_loop(_, _)
check_loop(keywords, check_text) ==
    IF keywords = << >> THEN {}
    ELSE IF Contains(check_text, Head(keywords)) THEN {Head(keywords)}
    ELSE check_loop(Tail(keywords), check_text)

\* KeywordFilter.check of monitor_v2.py
check(kf, text) ==
    IF text = {} \/ text = {<< >>} THEN {}
    ELSE LET t == CHOOSE x \in text : TRUE
         IN check_loop(kf.keywords, IF kf.case_sensitive THEN t ELSE lower(t))

\* find_longest_match of difflib.SequenceMatcher: the longest common block,
\* the earliest in a and then the earliest in b
longest_match(a, b) ==
    LET blocks == {blk \in (1..Len(a)) \X (1..Len(b)) \X (1..Len(a)) :
                      /\ blk[1] + blk[3] - 1 <= Len(a)
                      /\ blk[2] + blk[3] - 1 <= Len(b)
                      /\ SubSeq(a, blk[1], blk[1] + blk[3] - 1)
                            = SubSeq(b, blk[2], blk[2] + blk[3] - 1)}
    IN IF blocks = {} THEN <<0, 0, 0>>
       ELSE CHOOSE blk \in blocks : \A o \in blocks :
               \/ blk[3] > o[3]
               \/ blk[3] = o[3] /\ blk[1] < o[1]
               \/ blk[3] = o[3] /\ blk[1] = o[1] /\ blk[2] <= o[2]

\* the characters in matching blocks (get_matching_blocks)
RECURSIVE matching(_, _)
matching(a, b) ==
    IF a = << >> \/ b = << >> THEN 0
    ELSE LET blk == longest_match(a, b)
         IN IF blk[3] = 0 THEN 0
            ELSE blk[3]
                 + matching(SubSeq(a, 1, blk[1] - 1), SubSeq(b, 1, blk[2] - 1))
                 + matching(SubSeq(a, blk[1] + blk[3], Len(a)),
                            SubSeq(b, blk[2] + blk[3], Len(b)))

\* _fuzzy_match(text, keyword) >= fuzzy_threshold, the threshold being 0.7:
\* ratio() is 2.0 * matches / (len(a) + len(b)), and 1.0 for two empty strs
fuzzy_match(kf, text, keyword) ==
    LET a == IF kf.case_sensitive THEN text ELSE lower(text)
        b == IF kf.case_sensitive THEN keyword ELSE lower(keyword)
    IN IF Len(a) + Len(b) = 0 THEN TRUE
       ELSE 10 * 2 * matching(a, b) >= 7 * (Len(a) + Len(b))

\* _ocr_error_match (monitor.py lines 163-202)
ocr_error_match(kf, text, keyword) ==
    LET t == no_space(IF kf.case_sensitive THEN text ELSE lower(text))
        k == no_space(IF kf.case_sensitive THEN keyword ELSE lower(keyword))
    IN Contains(t, k) \/ Contains(ocr_corrected(t), k)

\* one keyword of check in monitor.py (lines 223-242)
legacy_match(kf, text, keyword) ==
    LET check_text == IF kf.case_sensitive THEN text ELSE lower(text)
        check_keyword == IF kf.case_sensitive THEN keyword ELSE lower(keyword)
    IN CASE kf.match_mode = "contain" ->
               Contains(check_text, check_keyword) \/ ocr_error_match(kf, text, keyword)
         [] kf.match_mode = "exact" -> check_keyword = check_text
         [] kf.match_mode = "fuzzy" ->
               fuzzy_match(kf, text, keyword) \/ Contains(check_text, check_keyword)
         [] OTHER -> FALSE

\* the loop of check in monitor.py (lines 222-244)
RECURSIVE legacy_loop(_, _, _)
legacy_loop(kf, keywords, text) ==
    IF keywords = << >> THEN {}
    ELSE IF legacy_match(kf, text, Head(keywords)) THEN {Head(keywords)}
    ELSE legacy_loop(kf, Tail(keywords), text)

\* KeywordFilter.check of monitor.py
legacy_check(kf, text) ==
    IF text = {} \/ text = {<< >>} THEN {}
    ELSE legacy_loop(kf, kf.keywords, CHOOSE x \in text : TRUE)

\* a KeywordFilter of monitor_v2.py or of monitor.py, constructed
InitFilter ==
    /\ NoNotify
    /\ NoMonitor
    /\ NoProc
    /\ NoHook
    /\ checked = NoCheck
    /\ \E keywords \in KeywordLists, cs \in BOOLEAN :
          \/ keyword_filter = {KeywordFilterV2(keywords, cs)}
          \/ \E mode \in MatchModes : keyword_filter = {KeywordFilterV1(keywords, mode, cs)}

\* keyword_filter.check(text) called and returned
Check(text) ==
    /\ \E kf \in keyword_filter :
          checked' = [done |-> TRUE, text |-> text,
                      result |-> IF kf.legacy THEN legacy_check(kf, text)
                                 ELSE check(kf, text)]
    /\ UNCHANGED keyword_filter
    /\ UNCHANGED <<nvars, mvars, pvars, wvars>>

NextFilter == \E text \in Texts : Check(text)

SpecFilter == InitFilter /\ [][NextFilter]_vars

\* ---------------------------------------------------- message handling
\* the notification threads started in one run
MaxThreads == 2

\* the messages the polls of one run return
MaxPolled == 3

\* record.matched_keyword of a message no keyword matched ("(未匹配)")
Unmatched == <<"(unmatched)">>

\* Python truth of an Optional[str] held as a set: None and "" are false
Truthy(m) == m # {} /\ m # {<< >>}

\* msg.content of the polled messages
Contents == {<<"a">>, <<"b">>}

\* the messages one poll returns: at most two, each with its content;
\* msg.channel is the one window every message comes from
PolledBatches ==
    {<< >>} \cup {<<c>> : c \in Contents} \cup {<<c, d>> : c, d \in Contents}

\* What the calls _process_message makes may do: insert_message returns or
\* raises, and building the NotificationMessage and starting the thread
\* succeeds or raises.  _broadcast_to_websocket catches what its calls
\* raise (line 303) and changes nothing of the monitor either way.
CallOutcomes == [insert : {"ok", "raise"}, spawn : {"ok", "raise"}]

\* the keyword filters of the monitor: none, or one of monitor_v2.py
MonitorFilters ==
    {{}, {KeywordFilterV2(<< <<"a">> >>, FALSE)},
     {KeywordFilterV2(<< << >>, <<"a">> >>, TRUE)}}

\* the except clause of _process_message (line 243) catches nothing
process_message_lets_through(kind) == FALSE

\* the except clause of _process_message (line 243)
process_message_catches(kind) == kind = "Exception"

\* threading.Thread(target=send_async).start() replaced by a call of
\* send_async(): the thread has finished when the call returns
thread_run(th) == [th EXCEPT !.pc = "done"]

\* threading.Thread(target=send_async, daemon=True).start() (lines 278-279):
\* the thread exists and has not run yet
thread_start(th) == [th EXCEPT !.pc = "started"]

\* the thread of one notification, before it is started
new_thread(record) ==
    [msg |-> record.id, keyword |-> record.matched_keyword,
     source |-> record.window_title, pc |-> "new", at |-> {}, last |-> {},
     cooldown |-> 0, passed |-> FALSE]

\* _send_notification without the test of line 253 and without a failure
\* of the thread's start
send_notification_unchecked(ths, record, ns, spawn) ==
    Append(ths, thread_start(new_thread(record)))

\* _send_notification (lines 247-285): the threads after it
send_notification(ths, record, ns, spawn) ==
    IF ~ns THEN ths
    ELSE IF spawn = "raise" THEN ths
    ELSE Append(ths, thread_start(new_thread(record)))

\* _process_message (lines 191-245) for one message, o being what its calls do
process_message(st, msg, o, kf, ns) ==
    LET matched_keyword == IF kf = {} THEN {}
                           ELSE check(CHOOSE f \in kf : TRUE, {msg.content})
        hit == Truthy(matched_keyword)
        stats1 == IF hit THEN [st.stats EXCEPT !.matched_messages = @ + 1] ELSE st.stats
        record == [id |-> msg.id, window_title |-> msg.channel,
                   message_text |-> msg.content,
                   matched_keyword |-> IF hit THEN CHOOSE k \in matched_keyword : TRUE
                                       ELSE Unmatched]
        res == [id |-> msg.id, matched |-> matched_keyword, insert |-> o.insert,
                broadcast |-> "none", spawn |-> "none", stored |-> FALSE,
                returned |-> "False"]
    IN IF o.insert = "raise"
       THEN IF process_message_catches("Exception")
            THEN [st EXCEPT !.stats = stats1, !.results = Append(@, res)]
            ELSE [st EXCEPT !.stats = stats1,
                            !.results = Append(@, [res EXCEPT !.returned = "raised"]),
                            !.raised = TRUE]
       ELSE [st EXCEPT
               !.stats = [stats1 EXCEPT !.total_messages = @ + 1],
               !.table = Append(@, record),
               !.threads = IF hit THEN send_notification(@, record, ns, o.spawn) ELSE @,
               !.results = Append(@, [res EXCEPT !.stored = TRUE,
                                                 !.broadcast = "called",
                                                 !.spawn = IF hit /\ ns THEN o.spawn ELSE "none",
                                                 !.returned = "True"])]

\* the for loop of _poll_source (lines 321-322); an exception that leaves
\* _process_message ends the loop in the except clause of line 324
RECURSIVE process_all(_, _, _, _, _)
process_all(st, msgs, outs, kf, ns) ==
    IF msgs = << >> \/ st.raised THEN st
    ELSE process_all(process_message(st, Head(msgs), Head(outs), kf, ns),
                     Tail(msgs), Tail(outs), kf, ns)

\* The monitor of monitor_v2.py constructed, with its notification engine
\* when notification.enabled is set.
InitProc ==
    /\ NoMonitor
    /\ now = 0
    /\ enabled = TRUE
    /\ rules = RuleTable1
    /\ default_cfg = None
    /\ chan_enabled = [c \in Registered |-> TRUE]
    /\ chan_last_error = [c \in Registered |-> None]
    /\ cooldown_records = EmptyDict
    /\ call = NoCall
    /\ sent_key = EmptyDict
    /\ sent_pair = EmptyDict
    /\ keyword_filter \in MonitorFilters
    /\ checked = NoCheck
    /\ NoHook
    /\ notification_system \in BOOLEAN
    /\ stats = [total_messages |-> 0, matched_messages |-> 0]
    /\ messages_table = << >>
    /\ threads = << >>
    /\ batch = NoBatch

\* _poll_source from line 317 on, for the messages a poll returned
ProcessBatch(contents, outs) ==
    /\ batch.polled + Len(contents) <= MaxPolled
    /\ Len(outs) = Len(contents)
    /\ LET msgs == [j \in 1..Len(contents) |->
                      [id |-> batch.polled + j, content |-> contents[j], channel |-> <<"w">>]]
           st == process_all([stats |-> stats, table |-> messages_table,
                              threads |-> threads, results |-> << >>, raised |-> FALSE],
                             msgs, outs, keyword_filter, notification_system)
       IN /\ Len(st.threads) <= MaxThreads
          /\ stats' = st.stats
          /\ messages_table' = st.table
          /\ threads' = st.threads
          /\ batch' = [polled |-> batch.polled + Len(contents), msgs |-> msgs, results |-> st.results,
                       returned |-> IF st.raised THEN "caught" ELSE "normal",
                       threads_before |-> Len(threads),
                       started |-> SubSeq(st.threads, Len(threads) + 1, Len(st.threads))]
    /\ UNCHANGED <<notification_system, fvars, wvars, nvars, mvars>>

ProcessAnyBatch ==
    \E contents \in PolledBatches :
       \E outs \in [1..Len(contents) -> CallOutcomes] : ProcessBatch(contents, outs)

\* A notification thread entering notify (lines 479-502) and
\* _check_cooldown up to its read of the ledger (lines 440-444).
ThreadRead(t) ==
    /\ t \in 1..Len(threads)
    /\ threads[t].pc = "started"
    /\ LET th == threads[t]
           matched == match_rules(rules, th.keyword)
           cd == applied_cooldown(matched)
           key == cooldown_key(th.keyword, th.source)
       IN threads' = [threads EXCEPT ![t] =
             IF ~enabled THEN [th EXCEPT !.pc = "done"]
             ELSE IF cd <= 0 THEN [th EXCEPT !.pc = "passed", !.passed = TRUE, !.at = {now}]
             ELSE [th EXCEPT !.pc = "read", !.cooldown = cd, !.at = {now},
                             !.last = Prev(cooldown_records, key)]]
    /\ UNCHANGED <<notification_system, stats, messages_table, batch>>
    /\ UNCHANGED <<fvars, wvars, nvars, mvars>>

\* The rest of _check_cooldown (lines 446-453) on what the thread read.
ThreadDecide(t) ==
    /\ t \in 1..Len(threads)
    /\ threads[t].pc = "read"
    /\ LET th == threads[t]
           key == cooldown_key(th.keyword, th.source)
           at == CHOOSE x \in th.at : TRUE
       IN IF \E l \in th.last : at - l < th.cooldown
          THEN /\ threads' = [threads EXCEPT ![t] = [th EXCEPT !.pc = "done"]]
               /\ UNCHANGED cooldown_records
          ELSE /\ threads' = [threads EXCEPT ![t] = [th EXCEPT !.pc = "passed", !.passed = TRUE]]
               /\ cooldown_records' = Put(cooldown_records, key, at)
    /\ UNCHANGED <<notification_system, stats, messages_table, batch>>
    /\ UNCHANGED <<now, enabled, rules, default_cfg, chan_enabled, chan_last_error,
                   call, sent_key, sent_pair>>
    /\ UNCHANGED <<fvars, wvars, mvars>>

\* The sends of notify (lines 507-533) in the thread, and the end of
\* send_async: asyncio.run returns, or raises into the except clause of
\* line 274.
ThreadSend(t) ==
    /\ t \in 1..Len(threads)
    /\ threads[t].pc = "passed"
    /\ LET th == threads[t]
           matched == match_rules(rules, th.keyword)
       IN \/ \E chans \in channel_orders(matched, default_cfg) :
             \E beh \in behaviours({c \in Range(chans) : can_send(c, chan_enabled)}) :
                LET d == dispatch(chans, chan_enabled, beh)
                IN /\ threads' = [threads EXCEPT ![t] = [th EXCEPT !.pc = "done"]]
                   /\ chan_last_error' =
                         [c \in Registered |->
                             IF c \in d.errors THEN "error" ELSE chan_last_error[c]]
          \/ /\ threads' = [threads EXCEPT ![t] = [th EXCEPT !.pc = "failed"]]
             /\ UNCHANGED chan_last_error
    /\ UNCHANGED <<notification_system, stats, messages_table, batch>>
    /\ UNCHANGED <<now, enabled, rules, default_cfg, chan_enabled, cooldown_records,
                   call, sent_key, sent_pair>>
    /\ UNCHANGED <<fvars, wvars, mvars>>

ThreadStep == \E t \in 1..MaxThreads : ThreadRead(t) \/ ThreadDecide(t) \/ ThreadSend(t)

NextProc == ProcessAnyBatch \/ ThreadStep

SpecProc == InitProc /\ [][NextProc]_vars

\* The notification engine alone: notify called at any time with any message.
Init == InitNotify /\ NoMonitor /\ NoOthers

Spec == Init /\ [][Next]_vars

\* The notification engine with every registered channel enabled and no
\* default_channels configured, enabled or not, under either rule table.
InitLedger ==
    /\ NoMonitor
    /\ NoOthers
    /\ now = 0
    /\ enabled \in BOOLEAN
    /\ rules \in RuleTables
    /\ default_cfg = None
    /\ chan_enabled = [c \in Registered |-> TRUE]
    /\ chan_last_error = [c \in Registered |-> None]
    /\ cooldown_records = EmptyDict
    /\ call = NoCall
    /\ sent_key = EmptyDict
    /\ sent_pair = EmptyDict

SpecLedger == InitLedger /\ [][Next]_vars

\* notification.default_channels naming one channel twice
RepeatedDefault == <<"console", "dingtalk", "console">>

\* The notification engine enabled, with default_channels absent or naming
\* a channel twice.
InitSend ==
    /\ NoMonitor
    /\ NoOthers
    /\ now = 0
    /\ enabled = TRUE
    /\ rules = RuleTable1
    /\ default_cfg \in {None, RepeatedDefault}
    /\ chan_enabled \in {f \in [Registered -> BOOLEAN] : f["console"] /\ f["file"]}
    /\ chan_last_error = [c \in Registered |-> None]
    /\ cooldown_records = EmptyDict
    /\ call = NoCall
    /\ sent_key = EmptyDict
    /\ sent_pair = EmptyDict

SpecSend == InitSend /\ [][Next]_vars

\* ------------------------------------------------------- webhook source

\* add_webhook_message is called at most MaxAdded times for a registered source.
MaxAdded == 3

\* the name of the WeChatApiSource constructed, and a name nothing is
\* registered under
HookSource == "kf"
HookNames == {HookSource, "other"}

Digits == {"0", "1", "2", "3", "4", "5", "6", "7", "8", "9"}

\* the JSON bodies the webhook route hands on (web_app.py lines 714-717):
\* MsgType, MsgId, FromUserName and CreateTime as the sender wrote them
WebhookPayloads ==
    {[MsgType |-> "text",  MsgId |-> <<"1">>, FromUserName |-> <<"u">>, CreateTime |-> <<"1">>],
     [MsgType |-> "text",  MsgId |-> <<"2">>, FromUserName |-> <<"u">>, CreateTime |-> <<"1">>],
     [MsgType |-> "text",  MsgId |-> << >>,   FromUserName |-> <<"u">>, CreateTime |-> <<"1">>],
     [MsgType |-> "text",  MsgId |-> <<"2">>, FromUserName |-> <<"u">>, CreateTime |-> <<"x">>],
     [MsgType |-> "image", MsgId |-> <<"3">>, FromUserName |-> <<"u">>, CreateTime |-> <<"1">>]}

\* the lock taken regardless of who holds it
lock_ignored(lock) == TRUE

\* `with _queue_lock:` is entered only while nobody holds the lock
\* (wechat_api.py lines 72 and 87)
lock_free(lock) == lock = "free"

\* int(create_time) returns (line 141); it raises ValueError otherwise
is_int(s) == s # << >> /\ \A i \in 1..Len(s) : s[i] \in Digits

\* msg_id of _parse_wechat_message (lines 130-138)
msg_id_of(raw) ==
    IF raw.MsgId # << >> THEN raw.MsgId
    ELSE raw.FromUserName \o <<"_">> \o raw.CreateTime

\* _parse_wechat_message (lines 115-159): None for a message that is not
\* text, an exception when CreateTime is no integer, the ChatMessage otherwise
parse_wechat_message(raw) ==
    IF raw.MsgType # "text" THEN [raised |-> FALSE, msg |-> {}]
    ELSE IF ~is_int(raw.CreateTime) THEN [raised |-> TRUE, msg |-> {}]
    ELSE [raised |-> FALSE,
          msg |-> {[id |-> msg_id_of(raw), message_type |-> "text", raw_data |-> raw]}]

\* WeChatApiSource(config named HookSource) constructed (lines 52-63)
InitHook ==
    /\ NoNotify
    /\ NoMonitor
    /\ NoFilter
    /\ NoProc
    /\ message_queues = [n \in {HookSource} |-> << >>]
    /\ queue_lock = "free"
    /\ processed_message_ids = {}
    /\ hook_pc = "idle"
    /\ hook_arg = {}
    /\ poll_pc = "idle"
    /\ raw_messages = << >>
    /\ polled_messages = << >>
    /\ hook_message_count = 0
    /\ hook_log = << >>

\* the webhook thread calls add_webhook_message(source_name, message) and
\* enters `with cls._queue_lock` (line 72)
AddAcquire(source_name, message) ==
    /\ hook_pc = "idle"
    /\ Len(hook_log) < MaxAdded
    /\ lock_free(queue_lock)
    /\ queue_lock' = "webhook"
    /\ hook_pc' = "locked"
    /\ hook_arg' = {[source_name |-> source_name, message |-> message]}
    /\ UNCHANGED <<message_queues, processed_message_ids, poll_pc, raw_messages,
                   polled_messages, hook_message_count, hook_log>>
    /\ UNCHANGED <<nvars, mvars, fvars, pvars>>

\* lines 73-75: the message appended when the name has a queue, and the
\* lock released.  hook_log notes the message and where poll was then.
AddAppend ==
    /\ hook_pc = "locked"
    /\ \E a \in hook_arg :
          IF a.source_name \in DOMAIN message_queues
          THEN /\ message_queues' =
                     [message_queues EXCEPT ![a.source_name] =
                         Append(@, [uid |-> Len(hook_log) + 1, raw |-> a.message])]
               /\ hook_log' = Append(hook_log,
                                     [raw |-> a.message, during |-> poll_pc,
                                      handled |-> FALSE, fresh |-> FALSE, times |-> 0])
          ELSE UNCHANGED <<message_queues, hook_log>>
    /\ queue_lock' = "free"
    /\ hook_pc' = "idle"
    /\ hook_arg' = {}
    /\ UNCHANGED <<processed_message_ids, poll_pc, raw_messages, polled_messages,
                   hook_message_count>>
    /\ UNCHANGED <<nvars, mvars, fvars, pvars>>

\* poll: messages = [] and `with WeChatApiSource._queue_lock` entered
\* (lines 83-87)
PollAcquire ==
    /\ poll_pc = "idle"
    /\ lock_free(queue_lock)
    /\ queue_lock' = "poll"
    /\ poll_pc' = "locked"
    /\ polled_messages' = << >>
    /\ UNCHANGED <<message_queues, processed_message_ids, hook_pc, hook_arg,
                   raw_messages, hook_message_count, hook_log>>
    /\ UNCHANGED <<nvars, mvars, fvars, pvars>>

\* lines 88-89: raw_messages = queue.copy()
PollCopy ==
    /\ poll_pc = "locked"
    /\ raw_messages' = message_queues[HookSource]
    /\ poll_pc' = "copied"
    /\ UNCHANGED <<message_queues, queue_lock, processed_message_ids, hook_pc,
                   hook_arg, polled_messages, hook_message_count, hook_log>>
    /\ UNCHANGED <<nvars, mvars, fvars, pvars>>

\* line 90: queue.clear(), and the lock released at the end of the block
PollClear ==
    /\ poll_pc = "copied"
    /\ message_queues' = [message_queues EXCEPT ![HookSource] = << >>]
    /\ queue_lock' = "free"
    /\ poll_pc' = "convert"
    /\ UNCHANGED <<processed_message_ids, hook_pc, hook_arg, raw_messages,
                   polled_messages, hook_message_count, hook_log>>
    /\ UNCHANGED <<nvars, mvars, fvars, pvars>>

\* one turn of the loop of lines 93-100 for the next raw message: parsed,
\* and appended to messages when it is a message with an id not processed
\* before; an exception of the parse is logged and the message dropped.
\* hook_log notes that the message was converted and whether its id was new.
PollConvert ==
    /\ poll_pc = "convert"
    /\ raw_messages # << >>
    /\ LET raw_msg == Head(raw_messages)
           parsed == parse_wechat_message(raw_msg.raw)
           kept == {m \in parsed.msg : m.id \notin processed_message_ids}
       IN /\ processed_message_ids' = processed_message_ids \cup {m.id : m \in kept}
          /\ polled_messages' =
                IF kept = {} THEN polled_messages
                ELSE Append(polled_messages,
                            [uid |-> raw_msg.uid, msg |-> CHOOSE m \in kept : TRUE])
          /\ hook_log' = [hook_log EXCEPT ![raw_msg.uid].handled = TRUE,
                              ![raw_msg.uid].fresh =
                                  msg_id_of(raw_msg.raw) \notin processed_message_ids]
    /\ raw_messages' = Tail(raw_messages)
    /\ UNCHANGED <<message_queues, queue_lock, hook_pc, hook_arg, poll_pc,
                   hook_message_count>>
    /\ UNCHANGED <<nvars, mvars, fvars, pvars>>

\* lines 102-113: _message_count raised and messages returned.  hook_log
\* counts the return for every message of the list.
PollReturn ==
    /\ poll_pc = "convert"
    /\ raw_messages = << >>
    /\ hook_message_count' = hook_message_count + Len(polled_messages)
    /\ hook_log' = [u \in 1..Len(hook_log) |->
                      IF \E k \in 1..Len(polled_messages) : polled_messages[k].uid = u
                      THEN [hook_log[u] EXCEPT !.times = @ + 1]
                      ELSE hook_log[u]]
    /\ polled_messages' = << >>
    /\ poll_pc' = "idle"
    /\ UNCHANGED <<message_queues, queue_lock, processed_message_ids, hook_pc,
                   hook_arg, raw_messages>>
    /\ UNCHANGED <<nvars, mvars, fvars, pvars>>

\* the webhook thread and the scheduler thread, interleaved
NextHook ==
    \/ \E source_name \in HookNames, message \in WebhookPayloads :
          AddAcquire(source_name, message)
    \/ AddAppend
    \/ PollAcquire
    \/ PollCopy
    \/ PollClear
    \/ PollConvert
    \/ PollReturn

SpecHook == InitHook /\ [][NextHook]_vars

\* ------------------------------------------------------ claims: notify

Called == call.status \in {"sent", "dropped"}

Dropped == call.status = "dropped" /\ call.results = EmptyDict /\ call.log = << >>

\* the channels whose send was invoked by the last notify
Invoked == {call.log[i][2] : i \in {j \in 1..Len(call.log) : call.log[j][1] = "start"}}

\* C1, as stated: a notification with a positive governing cooldown that is
\* checked less than that cooldown after the last notification sent under the
\* same key string keyword:source is dropped whole.
C1_SameKeyDropped ==
    \A t \in call.prev_key :
        (Called /\ call.cooldown > 0 /\ call.at - t < call.cooldown) => Dropped

\* C1, amended: the same for two notifications that have the same keyword and
\* the same source (not only the same formatted key).
C1_SamePairDropped ==
    \A t \in call.prev_pair :
        (Called /\ call.cooldown > 0 /\ call.at - t < call.cooldown) => Dropped

C1_Witness ==
    /\ Dropped /\ call.cooldown > 0
    /\ \E t \in call.prev_pair : call.at > t /\ call.at - t < call.cooldown

\* the rules a call reported as matched
MatchedRules == {rules[i] : i \in {j \in 1..Len(rules) : rules[j].name \in Range(call.matched)}}

SetMin(S) == CHOOSE m \in S : \A x \in S : m <= x

\* C3: when at least one rule matched, the resolved channels are exactly the
\* union of the matched rules' channel lists, each channel once, and the
\* cooldown applied is the least cooldown of the matched rules.
C3_RuleUnion ==
    (Called /\ call.matched # << >>) =>
        /\ call.resolved = UNION {Range(r.channels) : r \in MatchedRules}
        /\ call.cooldown = SetMin({r.cooldown : r \in MatchedRules})
        /\ call.status = "sent" =>
              /\ Range(call.channels) = call.resolved
              /\ Len(call.channels) = Cardinality(call.resolved)
              /\ DOMAIN call.results = call.resolved

C3_Witness ==
    /\ call.status = "sent" /\ Len(call.matched) = 2
    /\ \E r1, r2 \in MatchedRules :
          /\ r1.cooldown < r2.cooldown
          /\ Range(r1.channels) # Range(r2.channels)
          /\ Range(r1.channels) \cap Range(r2.channels) # {}

\* the names of the rules of the table that satisfy P, in table order
NamesWhere(P(_)) ==
    LET sel == SelectSeq(rules, P) IN [i \in 1..Len(sel) |-> sel[i].name]

\* C4, as stated: the matched rules are the enabled rules one of whose
\* keyword entries contains the message keyword.
C4_KeywordInsideRuleEntry ==
    Called => call.matched =
        NamesWhere(LAMBDA r : r.enabled /\ \E kw \in Range(r.keywords) :
                      \E i \in 0..(Len(kw) - Len(call.keyword)) :
                         SubSeq(kw, i + 1, i + Len(call.keyword)) = call.keyword)

\* C4, amended: the matched rules are the enabled rules one of whose keyword
\* entries is contained in the message keyword.
C4_RuleEntryInsideKeyword ==
    Called => call.matched =
        NamesWhere(LAMBDA r : r.enabled /\ \E kw \in Range(r.keywords) :
                      \E i \in 0..(Len(call.keyword) - Len(kw)) :
                         SubSeq(call.keyword, i + 1, i + Len(kw)) = kw)

\* a rule matched through an entry shorter than the message keyword
C4_Witness ==
    /\ Called
    /\ \E r \in MatchedRules : \E kw \in Range(r.keywords) :
          Len(kw) < Len(call.keyword) /\ Contains(call.keyword, kw)

\* C5: when no enabled rule matches, notify uses the configured default
\* channels (console and file when none is configured) with no cooldown: the
\* notification is never dropped and the send of every available default
\* channel is invoked.
C5_DefaultFallback ==
    (Called /\ call.matched = << >>) =>
        /\ call.status = "sent"
        /\ call.cooldown = 0
        /\ call.channels = (IF default_cfg = None THEN <<"console", "file">> ELSE default_cfg)
        /\ Invoked = {c \in Range(call.channels) : c \in Registered /\ chan_enabled[c]}

\* a repeat of a defaulted notification at the very time of the one before
C5_Witness ==
    /\ call.status = "sent" /\ call.matched = << >>
    /\ call.prev_pair = {call.at} /\ Invoked # {}

\* C6, as stated: every channel that notify reports as False has an error
\* string in its last_error.
C6_FalseHasLastError ==
    call.status = "sent" =>
        \A c \in DOMAIN call.results :
            call.results[c] = FALSE => (c \in Registered /\ chan_last_error[c] # None)

\* C7, as stated: a send that runs into its timeout does not delay the start
\* of the sends to the sibling channels: no send starts after a timeout.
C7_TimeoutDelaysNoSibling ==
    \A i, j \in 1..Len(call.log) :
        (i < j /\ call.log[i][1] = "end" /\ call.log[i][3] = "timeout")
            => call.log[j][1] # "start"

\* C23: a notify call writes the ledger exactly when it passes the cooldown
\* check under a positive window, and then it writes the entry of its own
\* key with the time of the call, whatever its sends return; a call that is
\* disabled, dropped, or under a zero window leaves the whole ledger as it was.
C23_LedgerWrittenOnPass ==
    [][now' = now =>
          IF call'.status = "sent" /\ call'.cooldown > 0
          THEN cooldown_records' =
                  Put(cooldown_records, cooldown_key(call'.keyword, call'.source), now)
          ELSE cooldown_records' = cooldown_records]_vars

\* a call that passed under a positive window and had every send fail: its
\* key is in the ledger with the time of the call
C23_Witness ==
    /\ call.status = "sent"
    /\ call.cooldown > 0
    /\ DOMAIN call.results # {}
    /\ \A c \in DOMAIN call.results : ~call.results[c]
    /\ cooldown_key(call.keyword, call.source) \in DOMAIN cooldown_records
    /\ cooldown_records[cooldown_key(call.keyword, call.source)] = call.at

\* the times send of channel c was invoked by the last notify
SendsOf(c) == {i \in 1..Len(call.log) : call.log[i] = <<"start", c>>}

\* C29, as stated: the map a notify call returns when it was not dropped has
\* exactly the resolved channels as keys; a resolved channel that is not
\* registered or not available is mapped to False and its send is not
\* invoked; the send of every other resolved channel is invoked exactly once.
C29_OneSendPerResolvedChannel ==
    call.status = "sent" =>
        /\ DOMAIN call.results = call.resolved
        /\ \A c \in call.resolved :
              IF can_send(c, chan_enabled)
              THEN Cardinality(SendsOf(c)) = 1
              ELSE SendsOf(c) = {} /\ ~call.results[c]

\* ------------------------------------------------ claims: orchestrator

\* No message of `log` is handed on ("new") while its id is live, starting
\* from the live ids l.
RECURSIVE NoLiveRepeat(_, _)
NoLiveRepeat(l, log) ==
    IF log = << >> THEN TRUE
    ELSE LET e == Head(log)
         IN /\ (e[1] = "new" => e[2] \notin l)
            /\ NoLiveRepeat(IF e[1] = "new" THEN l \cup {e[2]}
                            ELSE IF e[1] = "trim" THEN l \ e[2] ELSE l,
                            Tail(log))

\* the ids of the "new" events of a log, in order
NewIds(log) ==
    LET news == SelectSeq(log, LAMBDA e : e[1] = "new")
    IN [k \in 1..Len(news) |-> news[k][2]]

\* C2: an id a source delivers again, in the same poll or a later one, while
\* it has not been evicted from that source's cache since it was handed on,
\* is suppressed: the orchestrator processes only the first occurrence.
C2_SecondOccurrenceSuppressed ==
    step.poll = "ok" =>
        /\ NoLiveRepeat(step.live_before, step.log)
        /\ step.processed = NewIds(step.log)

\* a poll that delivers again an id handed on by an earlier poll, and drops it
C2_Witness ==
    /\ step.poll = "ok"
    /\ \E k \in 1..Len(step.log) :
          step.log[k][1] = "dup" /\ step.log[k][2] \in step.live_before

\* C8: an exception of one source's is_available() or poll() never ends the
\* loop: the for loop goes on to the next source, and a source that is due
\* at its turn has _poll_source called for it.
C8_PollFailuresContained ==
    /\ exit_cause # "source_error"
    /\ step.src # 0 =>
          /\ step.due => step.entered
          /\ loop = "loop" => idx = step.src + 1
          /\ (loop = "loop" /\ step.due) =>
                source_last_poll[sources[step.src].name] = step.at

\* the second source is polled successfully while every poll of the first
\* one has raised, more than once
C8_Witness ==
    /\ loop = "loop"
    /\ step.src = 2 /\ step.poll = "ok" /\ step.at > StartTime
    /\ raise_streak[1] = 2

\* C9, as stated: a failed poll, reported by the source or raised to the
\* orchestrator, adds one to error_count and leaves last_error set; a
\* successful poll leaves error_count alone and clears last_error.
C9_EveryFailureRecorded ==
    /\ step.poll \in {"fail", "raise"} =>
          /\ error_count[step.src] = step.errors_before + 1
          /\ last_error[step.src] # None
    /\ step.poll = "ok" =>
          /\ error_count[step.src] = step.errors_before
          /\ last_error[step.src] = None

\* the error test of is_available, on what the turn found
InErrorWindow == step.error_before # None /\ \E p \in step.polled_before : step.at - p < ErrorWindow

\* C10, as stated: whenever a source's poll interval has elapsed (and the
\* source is enabled and its own check passes) poll() is called, after a
\* failed poll exactly as after a successful one.
C10_PolledWheneverDue ==
    (step.src # 0 /\ step.due /\ step.env = "ok" /\ sources[step.src].enabled)
        => step.poll # "none"

\* C10, amended: a source stays in rotation after a failure (each time its
\* interval has elapsed _poll_source is called for it, at the same cadence),
\* but poll() is called only when no failure was recorded less than the
\* error window before; inside the window the cycle is skipped.
C10_RetryAfterErrorWindow ==
    step.src # 0 =>
        /\ step.due => step.entered
        /\ (step.due /\ step.env = "ok" /\ sources[step.src].enabled) =>
              (step.poll # "none" <=> ~InErrorWindow)

\* a poll called again for a source whose last poll had failed
C10_Witness ==
    /\ step.src # 0 /\ step.poll # "none" /\ step.error_before # None
    /\ \E p \in step.polled_before : step.at - p >= ErrorWindow

\* the sources of the running monitor
SourceIds == 1..Len(sources)

\* C12: when a _deduplicate_messages call has returned, the cache of a
\* source holds at most the cap; a trim leaves exactly the kept number, so
\* after a trim the cache holds the kept number plus the ids added since.
C12_CacheBounded ==
    \A i \in SourceIds :
        /\ Cardinality(seen_message_ids[i]) <= DedupCap
        /\ \A n \in since_trim[i] : Cardinality(seen_message_ids[i]) = DedupKeep + n

\* a cache that was trimmed and has taken a new id since
C12_Witness ==
    \E i \in SourceIds : \E n \in since_trim[i] :
        n > 0 /\ Cardinality(seen_message_ids[i]) = DedupKeep + n

\* C13, as stated: the loop of run() is left only on a stop signal, stop()
\* or a keyboard interrupt; no failure of a source or of the heartbeat write
\* ends it.
C13_OnlyStopEndsLoop ==
    loop = "exited" => exit_cause \in {"interrupt", "stop"}

\* C17, as stated: a source is polled at its turn exactly when the time
\* since its own last poll is at least its own interval (a new source at
\* once), whatever the other sources' intervals and poll times are.
C17_DueOnOwnSchedule ==
    step.src # 0 =>
        (step.due <=> step.at - step.own_before >= sources[step.src].poll_interval)

\* C16, as stated: while the loop runs, every registered source has
\* _poll_source called for it again and again, whatever the sources' names.
C16_NoStarvation ==
    \A i \in 1..2 : []<>(step.src = i /\ step.due)

Available(i) ==
    is_available(sources[i].enabled, last_error[i], last_poll_time[i], clock)

FoundUnavailable ==
    step.src # 0 /\ step.due /\ (step.env = "no" \/ (step.env = "ok" /\ InErrorWindow))

\* C24: in a due cycle whose is_available() is false poll() is not called,
\* no message is handed to _process_message, and the source's last poll
\* time, last error, message counter and error counter are as before.
C24_UnavailableCycleSkipped ==
    FoundUnavailable =>
        /\ step.avail = "no"
        /\ step.poll = "none"
        /\ step.processed = << >>
        /\ last_poll_time[step.src] = step.polled_before
        /\ last_error[step.src] = step.error_before
        /\ message_count[step.src] = step.messages_before
        /\ error_count[step.src] = step.errors_before

\* a source with one failure recorded and messages counted is refused by
\* the base check at a due cycle
C24_Witness ==
    /\ FoundUnavailable
    /\ step.env = "ok"
    /\ step.errors_before >= 1
    /\ \E i \in 1..Len(sources) : message_count[i] >= 1

\* C26: a turn of the for loop, whatever the source did in it, leaves the
\* heartbeat counter alone and writes no heartbeat; the end of an iteration
\* counts it, and the heartbeat is written at the end of exactly every
\* HeartbeatEvery-th iteration since the last one (or since the start).
C26_HeartbeatEveryNthIteration ==
    [][/\ heartbeat_counter < HeartbeatEvery
       /\ (loop = "loop" /\ idx <= Len(sources) /\ loop' = "loop")
             => (heartbeat_counter' = heartbeat_counter /\ step'.beat = "none")
       /\ (loop = "loop" /\ idx = Len(sources) + 1 /\ exit_cause' # "interrupt")
             => /\ step'.beat \in {"ok", "raise"} <=> heartbeat_counter + 1 = HeartbeatEvery
                /\ step'.beat = "ok" => heartbeat_counter' = 0
                /\ step'.beat = "none" => heartbeat_counter' = heartbeat_counter + 1]_vars

\* a heartbeat written at the end of an iteration in which a source was
\* skipped as unavailable after a failed poll
C26_Witness ==
    /\ step.beat = "ok"
    /\ heartbeat_counter = 0
    /\ loop = "loop"
    /\ \E i \in 1..Len(sources) :
          /\ last_error[i] # None
          /\ ~Available(i)
          /\ source_last_poll[sources[i].name] = clock

\* Whether every trim of `log` evicted the oldest ids.  rank maps each
\* cached id to the place in the log where it was added (0: it was cached
\* before the call, and the order among those is not known); n counts the
\* messages of the log so far.
RECURSIVE oldest_first(_, _, _)
oldest_first(rank, n, log) ==
    IF log = << >> THEN TRUE
    ELSE LET e == Head(log)
         IN IF e[1] = "new" THEN oldest_first(Put(rank, e[2], n + 1), n + 1, Tail(log))
            ELSE IF e[1] = "trim"
            THEN LET kept == DOMAIN rank \ e[2]
                 IN /\ \A k \in kept, x \in e[2] :
                          rank[k] > rank[x] \/ (rank[k] = 0 /\ rank[x] = 0)
                    /\ oldest_first([k \in kept |-> rank[k]], n, Tail(log))
            ELSE oldest_first(rank, n + 1, Tail(log))

\* C27, as stated: at every trim of the dedup cache each id kept was added
\* later than each id evicted.
C27_OldestEvictedFirst ==
    step.src # 0 => oldest_first([id \in step.seen_before |-> 0], 0, step.log)

\* C28, as stated: the list one _deduplicate_messages call returns holds no
\* id twice, also when the cache is trimmed during the call.
C28_NoRepeatInOneCall ==
    step.src # 0 =>
        \A p, q \in 1..Len(step.processed) : p # q => step.processed[p] # step.processed[q]

\* ------------------------------------------------ claims: keyword filter

\* whether keyword k of the filter matches the str t under the filter's
\* mode and case sensitivity
TheFilter == CHOOSE kf \in keyword_filter : TRUE

KeywordMatches(k, t) ==
    IF TheFilter.legacy THEN legacy_match(TheFilter, t, TheFilter.keywords[k])
    ELSE Contains(IF TheFilter.case_sensitive THEN t ELSE lower(t),
                  TheFilter.keywords[k])

\* C14: check returns the first keyword, in configured order, that matches
\* the text, None when no keyword matches, and None for an empty or null
\* text whatever the keywords are.  The keyword returned is the one the
\* filter stores: monitor_v2.py stores a keyword in lower case when the
\* filter is not case sensitive.
C14_FirstMatchWins ==
    checked.done =>
        IF checked.text = {} \/ checked.text = {<< >>} THEN checked.result = {}
        ELSE LET t == CHOOSE x \in checked.text : TRUE
                 hits == {k \in 1..Len(TheFilter.keywords) : KeywordMatches(k, t)}
             IN IF hits = {} THEN checked.result = {}
                ELSE checked.result = {TheFilter.keywords[SetMin(hits)]}

\* a text that two different keywords match, checked
C14_Witness ==
    /\ checked.done
    /\ \E t \in checked.text :
          \E k1, k2 \in 1..Len(TheFilter.keywords) :
             /\ k1 < k2
             /\ KeywordMatches(k1, t) /\ KeywordMatches(k2, t)
             /\ TheFilter.keywords[k1] # TheFilter.keywords[k2]
             /\ checked.result = {TheFilter.keywords[k1]}

\* ---------------------------------------------- claims: message handling

\* the rows of the messages table that hold message id
RowsOf(id) == {r \in 1..Len(messages_table) : messages_table[r].id = id}

\* the notification threads the last batch started for message id
StartedFor(id) == {k \in 1..Len(batch.started) : batch.started[k].msg = id}

\* C11: when insert_message raises for one message of a batch, every other
\* message of the batch, the later ones too, is still matched and
\* persisted, and _poll_source returns without reaching its except clause.
C11_BatchSurvivesInsertFailure ==
    batch.returned # "none" =>
        /\ batch.returned = "normal"
        /\ Len(batch.results) = Len(batch.msgs)
        /\ \A j \in 1..Len(batch.msgs) :
              /\ batch.results[j].id = batch.msgs[j].id
              /\ batch.results[j].insert = "ok" =>
                    /\ batch.results[j].stored
                    /\ \E r \in RowsOf(batch.msgs[j].id) :
                          messages_table[r].message_text = batch.msgs[j].content

\* a batch whose first message failed to persist and whose second was stored
C11_Witness ==
    /\ Len(batch.msgs) = 2
    /\ batch.results[1].insert = "raise"
    /\ batch.results[2].stored
    /\ RowsOf(batch.msgs[2].id) # {}
    /\ RowsOf(batch.msgs[1].id) = {}

\* C15, as stated: of the notifications with one keyword and source that
\* are in flight together, at most one passes the cooldown check inside
\* the governing window.
C15_OnePassPerWindow ==
    \A t1, t2 \in 1..Len(threads) :
        (/\ t1 # t2
         /\ threads[t1].keyword = threads[t2].keyword
         /\ threads[t1].source = threads[t2].source
         /\ threads[t1].passed /\ threads[t2].passed
         /\ threads[t1].cooldown > 0)
        => \A a1 \in threads[t1].at, a2 \in threads[t2].at :
              a1 - a2 >= threads[t1].cooldown \/ a2 - a1 >= threads[t1].cooldown

\* C18, as stated: for every message of a batch a notification is started
\* exactly once if the keyword filter matched it and its row was stored,
\* and not at all otherwise.
C18_NotifiedIffMatchedAndStored ==
    \A j \in 1..Len(batch.results) :
        LET n == Cardinality(StartedFor(batch.results[j].id))
        IN IF batch.results[j].matched # {} /\ batch.results[j].stored
           THEN n = 1 ELSE n = 0

\* C18, amended: a notification is started for a message at most once, and
\* it is started exactly when the filter returned a non-empty keyword, the
\* row was stored, the monitor has a notification system, and building the
\* message and starting the thread did not fail.
C18_NotifiedIffMatchedStoredAndEnabled ==
    \A j \in 1..Len(batch.results) :
        LET n == Cardinality(StartedFor(batch.results[j].id))
        IN IF /\ Truthy(batch.results[j].matched) /\ batch.results[j].stored
              /\ notification_system /\ batch.results[j].spawn = "ok"
           THEN n = 1 ELSE n = 0

\* a batch with a matched and stored message that got its notification and
\* a matched message whose insert failed and that got none
C18_Witness ==
    \E i, j \in 1..Len(batch.results) :
        /\ Truthy(batch.results[i].matched) /\ batch.results[i].stored
        /\ Cardinality(StartedFor(batch.results[i].id)) = 1
        /\ Truthy(batch.results[j].matched) /\ ~batch.results[j].stored
        /\ StartedFor(batch.results[j].id) = {}

\* the threads that have not finished
Pending == {t \in 1..Len(threads) : threads[t].pc \in {"started", "read", "passed"}}

\* C19: _send_notification returns when the thread is started, before
\* notify has run in it; the threads started earlier are left as they are,
\* and no step of a thread, failed or not, changes a stored row, the
\* statistics or the result of the batch.
C19_FireAndForget ==
    [][/\ batch' # batch =>
             /\ \A k \in 1..Len(batch'.started) : batch'.started[k].pc = "started"
             /\ Len(threads') = Len(threads) + Len(batch'.started)
             /\ SubSeq(threads', 1, Len(threads)) = threads
       /\ threads' # threads /\ batch' = batch =>
             /\ messages_table' = messages_table
             /\ stats' = stats]_vars

\* a batch handled, and a notification started for it, while the
\* notification of an earlier batch is pending
C19_Witness ==
    /\ batch.threads_before >= 1
    /\ 1 \in Pending
    /\ Len(batch.started) >= 1
    /\ batch.results[Len(batch.results)].returned = "True"

\* C25, as stated: _broadcast_to_websocket is called for a message of the
\* batch only when a keyword matched it; a message no keyword matched is
\* stored and not broadcast.
C25_BroadcastOnlyOnMatch ==
    \A k \in 1..Len(batch.results) :
        batch.results[k].broadcast = "called" => Truthy(batch.results[k].matched)

\* C30, as stated: stats.matched_messages never exceeds
\* stats.total_messages, and total_messages is the number of rows stored.
C30_CountersConsistent ==
    /\ stats.matched_messages <= stats.total_messages
    /\ stats.total_messages = Len(messages_table)

\* ------------------------------------------------ claims: webhook source

\* the payloads waiting in the queue of the source, those only poll's local
\* copy holds (the queue cleared), and those in poll's list of messages to
\* return
Queued == {message_queues[HookSource][i].uid : i \in 1..Len(message_queues[HookSource])}
Taken == IF poll_pc = "convert" THEN {raw_messages[i].uid : i \in 1..Len(raw_messages)}
         ELSE {}
Returning == {polled_messages[k].uid : k \in 1..Len(polled_messages)}

\* payload u has been returned by a poll, or is in the list the poll in
\* progress returns
Delivered(u) == hook_log[u].times >= 1 \/ u \in Returning

\* Every payload appended for the source is in exactly one place (the
\* queue, poll's local copy, or converted), so none is lost between the copy
\* and the clear and none is taken by two polls; no payload is returned by
\* two polls, and no id is delivered for two payloads.
HandOffOnce ==
    /\ \A u \in 1..Len(hook_log) :
          /\ Cardinality({p \in {"queued", "taken", "handled"} :
                             \/ p = "queued" /\ u \in Queued
                             \/ p = "taken" /\ u \in Taken
                             \/ p = "handled" /\ hook_log[u].handled}) = 1
          /\ hook_log[u].times <= 1
          /\ ~(hook_log[u].times >= 1 /\ u \in Returning)
          /\ Delivered(u) => hook_log[u].handled
    /\ \A u, v \in 1..Len(hook_log) :
          Delivered(u) /\ Delivered(v) /\ u # v
             => msg_id_of(hook_log[u].raw) # msg_id_of(hook_log[v].raw)

\* C20 as stated: under every interleaving of the webhook thread and the
\* scheduler thread, no payload is lost or returned twice, and every text
\* message whose id poll had not processed before is delivered by the poll
\* that converts it.
C20_EveryTextMessageHandedOnce ==
    /\ HandOffOnce
    /\ \A u \in 1..Len(hook_log) :
          hook_log[u].handled /\ hook_log[u].raw.MsgType = "text" /\ hook_log[u].fresh
             => Delivered(u)

\* C20, amended: under every interleaving of the webhook thread and the
\* scheduler thread, no payload is lost or returned twice; a payload is
\* delivered by the poll that converts it exactly when it is a text message,
\* its id had not been processed before and its CreateTime converts to an
\* integer; a text message whose CreateTime does not convert is dropped.
C20_ParsedTextMessageHandedOnce ==
    /\ HandOffOnce
    /\ \A u \in 1..Len(hook_log) :
          hook_log[u].handled =>
             (Delivered(u) <=> /\ hook_log[u].raw.MsgType = "text"
                               /\ hook_log[u].fresh
                               /\ is_int(hook_log[u].raw.CreateTime))

\* a message appended while a poll was converting its copy has been
\* returned by the next poll, after the first poll returned another one
C20_Witness ==
    \E u, v \in 1..Len(hook_log) :
        /\ v < u
        /\ hook_log[v].times = 1
        /\ hook_log[u].during = "convert"
        /\ hook_log[u].times = 1
        /\ poll_pc = "idle"

====
